---- MODULE Spec2Model ----
(***************************************************************************)
(* Glassy-Starter-Page: the bookmark grid's drag-and-drop engine           *)
(* (BookmarkGrid.handleDragStart / handleDragOver / handleDragLeave /      *)
(* handleDrop), the folder view's drag-out (FolderView.handleBackdropDrop, *)
(* App.handleRemoveFromFolder) and the App state they act on.              *)
(*                                                                         *)
(* Conventions.                                                            *)
(*  - A BookmarkItem is a record [id, type, title, icon, children]. A link *)
(*    has no children in the source (the field is undefined); every read  *)
(*    of it in the source is `children || []`, so a link carries <<>>.    *)
(*  - An id is a string in the source. The only computed id is the        *)
(*    template `folder-${Date.now()}`; an id is modelled as the pair       *)
(*    [p, n] standing for the string p followed by the decimal n, so that  *)
(*    two ids are equal exactly when the strings are.                      *)
(*  - JavaScript indexes from 0 and findIndex answers -1; the model        *)
(*    indexes from 1 and findIndex answers 0 (NotFound).                   *)
(*  - Pointer coordinates are integers; x > W * 0.25 is 4x > W, and        *)
(*    x < W * 0.75 is 4x < 3W, x > W / 2 is 2x > W.                        *)
(***************************************************************************)
EXTENDS Integers, Sequences, FiniteSets, TLC

VARIABLES
    items,        \* App: const [items, setItems]               (App.tsx:75)
    openFolder,   \* App: const [openFolder, setOpenFolder]     (App.tsx:87)
    draggedItem,  \* BookmarkGrid: const [draggedItem, ...]     (BookmarkGrid.tsx:27)
    dragTarget,   \* BookmarkGrid: const [dragTarget, ...]      (BookmarkGrid.tsx:28)
    now,          \* the millisecond clock read by Date.now()
    drag,         \* the browser's drag session and its dataTransfer payload
    ptr,          \* SpecClassify: the pointer position and target box of the gesture
    last,         \* history: the last event and what its handler did
    seen,         \* history: classifications observed (recorded by SpecClassify and SpecReorder)
    editItem,     \* App: const [editItem, setEditItem]           (App.tsx:86)
    history,      \* SearchBar: const [history, setHistory]       (SearchBar.tsx:30)
    searchHistory,    \* localStorage: the value stored under 'searchHistory'
    maxHistoryItems,  \* App: settings.maxHistoryItems, SearchBar's prop
    isSettingsOpen,   \* App: const [isSettingsOpen, setIsSettingsOpen]
    imports,          \* backup files whose FileReader has not completed yet
    query,            \* SearchBar: const [query, setQuery]          (SearchBar.tsx:27)
    suggestions,      \* SearchBar: const [suggestions, ...]         (SearchBar.tsx:34)
    selectedIndex,    \* SearchBar: const [selectedIndex, ...]       (SearchBar.tsx:35)
    timer,            \* SearchBar: the pending debounce timer and what its closure captured
    fetches,          \* SearchBar: suggestion requests awaiting their response
    currentEngineId,  \* App: const [currentEngineId, ...], SearchBar's prop
    maxSuggestions,   \* App: settings.maxSuggestions, SearchBar's prop
    backgroundImage,  \* App: settings.backgroundImage
    backgroundImageId,    \* App: settings.backgroundImageId
    customWallpapers, \* SettingsModal: const [customWallpapers, ...]
    wallpaperStore,   \* IndexedDB 'glassy-wallpapers': the ids of the records held
    deletes           \* SettingsModal: handleDeleteCustom calls awaiting deleteWallpaper

\* The bookmarks import, the search suggestions, the wallpapers.
restore == <<isSettingsOpen, imports>>
suggest == <<query, suggestions, selectedIndex, timer, fetches, currentEngineId,
             maxSuggestions>>
wallpaper == <<backgroundImage, backgroundImageId, customWallpapers, wallpaperStore,
               deletes>>

vars == <<items, openFolder, draggedItem, dragTarget, now, drag, ptr, last, seen,
          editItem, history, searchHistory, maxHistoryItems, restore, suggest,
          wallpaper>>

\* The state of the edit modal, of the search bar and of the settings panel.
panels == <<editItem, history, searchHistory, maxHistoryItems, restore, suggest,
            wallpaper>>

\* The state of the bookmark grid, the folder view and the drag session.
grid == <<items, openFolder, draggedItem, dragTarget, drag, ptr, seen>>

\* ----------------------------------------------------------------- bounds
\* Date.now() takes the values 0 .. MaxNow.
MaxNow == 1
\* SpecImport: at most this many backup files are being read at a time.
MaxImports == 2
\* SpecSuggest: at most this many suggestion requests are in flight at a time.
MaxFetches == 2
\* SpecSuggest: the Max Search Suggestions setting takes the values 0 .. this.
MaxSuggestionSetting == 2
\* SpecWallpaper: at most this many wallpaper deletions await the store at a time.
MaxDeletes == 2
\* Spec: a folder is synthesized only while the tree holds fewer entries than this.
MaxEntries == 3
\* SpecMerge: a folder is synthesized only while the tree holds fewer entries than this.
MaxMergeEntries == 4
\* SpecDrop, SpecDropAbsent: the lists handed to a drop have at most this many entries.
MaxDropLen == 3
\* SpecFolder: a folder is synthesized only while the tree holds fewer entries than this.
MaxFolderEntries == 5
\* SpecSearch: the Max Search History slider takes the values 0 .. MaxHistorySetting.
MaxHistorySetting == 3
\* SpecEdit: a shortcut is added only while the list has fewer entries than this.
MaxEditEntries == 5

\* ----------------------------------------------------------------- values
Null == [null |-> TRUE]
NotFound == 0

\* The string p followed by the decimal number n.
Id(p, n) == [p |-> p, n |-> n]

\* types.ts: BookmarkItem with type 'link'.
Link(id, title) ==
    [id |-> id, type |-> "link", title |-> title, icon |-> "favicon", children |-> <<>>]

\* types.ts: BookmarkItem with type 'folder'.
Folder(id, title, children) ==
    [id |-> id, type |-> "folder", title |-> title, icon |-> "U+1F4C1", children |-> children]

\* The lists the App starts from are saved lists (App: localStorage 'bookmarks',
\* else INITIAL_BOOKMARKS) made of entries of INITIAL_BOOKMARKS: the links '1'
\* (GitHub) and '2' (YouTube), the folder '3' (Social) and its child '3-1'.
GitHub == Link(Id("", 1), "GitHub")
YouTube == Link(Id("", 2), "YouTube")
Twitter == Link(Id("3-", 1), "Twitter")
ChatGPT == Link(Id("", 4), "ChatGPT")
Social == Folder(Id("", 3), "Social", << Twitter >>)
Reddit == Link(Id("3-", 2), "Reddit")

\* Spec starts from a link and an empty folder.
SAVED_LINK_FOLDER == << GitHub, Folder(Id("", 3), "Social", << >>) >>

\* SpecMerge starts from two links.
SAVED_TWO_LINKS == << GitHub, YouTube >>

\* SpecFolder starts from a link and the folder '3' with its two children.
SAVED_LINK_SOCIAL == << GitHub, Folder(Id("", 3), "Social", << Twitter, Reddit >>) >>

\* SpecClassify starts from two links, a folder with a child and an empty folder.
SAVED_BOOKMARKS ==
    << GitHub, YouTube,
       Folder(Id("", 3), "Social", << Twitter >>),
       Folder(Id("", 5), "Empty", << >>) >>

\* ------------------------------------------------------------- array helpers
\* Array.prototype.findIndex(i => i.id === id), 1-based, NotFound for -1.
findIndex(s, id) ==
    IF \E i \in 1..Len(s) : s[i].id = id
    THEN CHOOSE i \in 1..Len(s) : s[i].id = id /\ \A j \in 1..(i-1) : s[j].id # id
    ELSE NotFound

\* newItems.splice(idx, 1) for a found idx: the array without element idx.
spliceOut(s, i) == SubSeq(s, 1, i - 1) \o SubSeq(s, i + 1, Len(s))

\* spliceIn inserting one place further right than asked.
spliceIn_next(s, start, obj) ==
    LET from == IF start + 1 > Len(s) THEN Len(s)
                ELSE (IF start + 1 < 0 THEN 0 ELSE start + 1)
    IN  SubSeq(s, 1, from) \o <<obj>> \o SubSeq(s, from + 1, Len(s))

\* newItems.splice(start, 0, obj), start a JavaScript index (0-based, may be -1):
\* a negative start counts from the end, clamped to 0; a start past the end appends.
spliceIn(s, start, obj) ==
    LET from == IF start < 0 THEN (IF Len(s) + start < 0 THEN 0 ELSE Len(s) + start)
                ELSE (IF start > Len(s) THEN Len(s) ELSE start)
    IN  SubSeq(s, 1, from) \o <<obj>> \o SubSeq(s, from + 1, Len(s))

\* newItems[idx] = obj, idx 1-based; for NotFound (JavaScript -1) the assignment
\* sets the property "-1" and no element of the array changes.
setAt(s, i, obj) ==
    IF i = NotFound THEN s ELSE [s EXCEPT ![i] = obj]

\* Array.prototype.filter(c => c.id !== id)
RECURSIVE filterOut(_, _)
filterOut(s, id) ==
    IF s = <<>> THEN <<>>
    ELSE IF Head(s).id = id THEN filterOut(Tail(s), id)
         ELSE <<Head(s)>> \o filterOut(Tail(s), id)

\* Array.prototype.map(i => i.id === obj.id ? obj : i)
replaceById(s, obj) ==
    [i \in 1..Len(s) |-> IF s[i].id = obj.id THEN obj ELSE s[i]]

\* ------------------------------------------------------------ tree measures
\* All entries of the tree, each followed by its descendants, in order.
RECURSIVE flatten(_)
flatten(s) ==
    IF s = <<>> THEN <<>>
    ELSE <<Head(s)>> \o flatten(Head(s).children) \o flatten(Tail(s))

TreeIds(s) == LET f == flatten(s) IN [i \in 1..Len(f) |-> f[i].id]

IdSet(s) == {TreeIds(s)[i] : i \in 1..Len(TreeIds(s))}

TreeSize(s) == Len(flatten(s))

\* ------------------------------------------------------------- drag session
NoId == Id("", 0)

\* No drag in progress.
NoDrag == [src |-> "none", type |-> "", id |-> NoId, fromFolderId |-> NoId]

\* BookmarkGrid.handleDragStart: setData('application/json', {id, type: 'grid-item'}).
GridPayload(item) ==
    [src |-> "grid", type |-> "grid-item", id |-> item.id, fromFolderId |-> NoId]

\* FolderView.handleDragStart: setData('application/json',
\* {id, fromFolderId: folder.id, type: 'folder-item'}).
FolderPayload(item, folder) ==
    [src |-> "folder", type |-> "folder-item", id |-> item.id, fromFolderId |-> folder.id]

\* A drag that started outside the page's draggable entries (a file, selected
\* text): getData('application/json') is the empty string.
ExternalPayload == [src |-> "external", type |-> "", id |-> NoId, fromFolderId |-> NoId]

\* Pointer position (x, y) relative to a target box of width W and height H.
Pt(x, y, W, H) == [x |-> x, y |-> y, W |-> W, H |-> H]

\* No pointer sample (the event carries no geometry the handlers read).
NoPt == Pt(0, 0, 0, 0)

\* What a handler did, for the history variable: the event, the entry it was
\* fired on, draggedItem when it was fired, the pointer and box, the branch taken.
Event(ev, target, dragged, g, op) ==
    [ev |-> ev, target |-> target, dragged |-> dragged, g |-> g, op |-> op]

\* --------------------------------------------------- BookmarkGrid: drag-over
\* isCenterOver with the four comparisons taken inclusive (>=, <=).
isCenterOver_inclusive(g) ==
    /\ 4 * g.x >= g.W
    /\ 4 * g.x <= 3 * g.W
    /\ 4 * g.y >= g.H
    /\ 4 * g.y <= 3 * g.H

\* handleDragOver: const isCenter = x > rect.width * 0.25 && x < rect.width * 0.75
\*                               && y > rect.height * 0.25 && y < rect.height * 0.75
isCenterOver(g) ==
    /\ 4 * g.x > g.W
    /\ 4 * g.x < 3 * g.W
    /\ 4 * g.y > g.H
    /\ 4 * g.y < 3 * g.H

\* canMergeOver testing the target for 'link' where the source tests for 'folder'.
canMergeOver_swapped(dragged, item) ==
    ~(dragged.type = "folder" /\ item.type = "link")

\* handleDragOver: const canMerge = !(draggedItem.type === 'folder' && item.type === 'folder')
canMergeOver(dragged, item) ==
    ~(dragged.type = "folder" /\ item.type = "folder")

\* handleDragOver: the action recorded in dragTarget.
overAction(dragged, item, g) ==
    IF isCenterOver(g) /\ canMergeOver(dragged, item)
    THEN "merge"
    ELSE IF 2 * g.x > g.W THEN "reorder-after" ELSE "reorder-before"

\* ------------------------------------------------------- BookmarkGrid: drop
\* isCenterDrop with the four comparisons taken inclusive (>=, <=).
isCenterDrop_inclusive(g) ==
    /\ 4 * g.x >= g.W
    /\ 4 * g.x <= 3 * g.W
    /\ 4 * g.y >= g.H
    /\ 4 * g.y <= 3 * g.H

\* handleDrop: const isCenter = ... (recomputed at drop time)
isCenterDrop(g) ==
    /\ 4 * g.x > g.W
    /\ 4 * g.x < 3 * g.W
    /\ 4 * g.y > g.H
    /\ 4 * g.y < 3 * g.H

\* canMergeDrop without the folder-into-folder test (the test kept in drag-over only).
canMergeDrop_always(dragged, targetItem) == TRUE

\* handleDrop: const canMerge = !(draggedItem.type === 'folder' && targetItem.type === 'folder')
canMergeDrop(dragged, targetItem) ==
    ~(dragged.type = "folder" /\ targetItem.type = "folder")

\* insertAfter taking the left half of the box.
insertAfter_left(g) == 2 * g.x < g.W

\* handleDrop: const insertAfter = x > rect.width / 2
insertAfter(g) == 2 * g.x > g.W

\* settings.backgroundImageId of a preset wallpaper.
undefined == "undefined"

\* The first two PRESET_BACKGROUNDS; DEFAULT_BACKGROUND is the first.
PRESET_BACKGROUNDS == <<"preset0", "preset1">>
DEFAULT_BACKGROUND == PRESET_BACKGROUNDS[1]

\* The ids of two uploaded wallpapers, the newer first.
Wallpapers == <<"w2", "w1">>

\* handleDrop: id: `folder-${Date.now()}`
newFolderId(t) == Id("folder-", t)

\* absorb putting the dragged entry first among the children.
absorb_front(targetItem, draggedObj) ==
    [targetItem EXCEPT !.children = <<draggedObj>> \o @]

\* handleDrop: { ...targetItem, children: [...(targetItem.children || []), draggedObj] }
absorb(targetItem, draggedObj) ==
    [targetItem EXCEPT !.children = @ \o <<draggedObj>>]

\* newFolder with the children in the order [dragged, target].
newFolder_swapped(targetItem, draggedObj, t) ==
    [id |-> newFolderId(t), type |-> "folder", title |-> "New Folder",
     icon |-> "U+1F4C1", children |-> <<draggedObj, targetItem>>]

\* handleDrop: the folder created by merging draggedObj onto the link targetItem.
newFolder(targetItem, draggedObj, t) ==
    [id |-> newFolderId(t), type |-> "folder", title |-> "New Folder",
     icon |-> "U+1F4C1", children |-> <<targetItem, draggedObj>>]

\* handleDrop, from `const newItems = [...items]` to `setItems(newItems)`: the
\* list committed, the value of draggedItem afterwards and the branch taken.
\* "return" is an early return: nothing is committed and draggedItem is kept.
dropResult(its, dragged, targetItem, g, t) ==
    IF dragged = Null \/ dragged.id = targetItem.id
    THEN [items |-> its, draggedItem |-> dragged, op |-> "return"]
    ELSE
    LET draggedIdx == findIndex(its, dragged.id) IN
    IF draggedIdx = NotFound
    THEN [items |-> its, draggedItem |-> dragged, op |-> "return"]
    ELSE
    LET isMerge    == isCenterDrop(g) /\ canMergeDrop(dragged, targetItem)
        draggedObj == its[draggedIdx]
        newItems   == spliceOut(its, draggedIdx)
        targetIdx  == findIndex(newItems, targetItem.id)
    IN  IF isMerge
        THEN IF targetItem.type = "folder"
             THEN [items |-> setAt(newItems, targetIdx, absorb(targetItem, draggedObj)),
                   draggedItem |-> Null, op |-> "merge-folder"]
             ELSE [items |-> setAt(newItems, targetIdx, newFolder(targetItem, draggedObj, t)),
                   draggedItem |-> Null, op |-> "merge-new"]
        ELSE IF insertAfter(g)
             THEN [items |-> spliceIn(newItems, (targetIdx - 1) + 1, draggedObj),
                   draggedItem |-> Null, op |-> "reorder-after"]
             ELSE [items |-> spliceIn(newItems, targetIdx - 1, draggedObj),
                   draggedItem |-> Null, op |-> "reorder-before"]

\* ------------------------------------------------- BookmarkGrid: the handlers
\* A grid entry receives pointer events only while no folder view is open: the
\* FolderView is a `fixed inset-0 z-[90]` overlay above the grid (FolderView's
\* root element), and only while the browser has a drag in progress.
GridEventPossible == drag.src # "none" /\ openFolder = Null

\* handleDragStart(e, item), item = items[k] of the rendered grid.
handleDragStart(k) ==
    /\ drag.src = "none"
    /\ openFolder = Null
    /\ draggedItem' = items[k]
    /\ drag' = GridPayload(items[k])
    /\ last' = Event("dragstart", items[k], draggedItem, NoPt, "")
    /\ UNCHANGED <<items, openFolder, dragTarget, now>>

\* handleDragOver committing the classified operation while the pointer hovers
\* (a live reorder), as handleDrop does at the drop.
handleDragOver_live(k, g) ==
    /\ GridEventPossible
    /\ dragTarget' = dragTarget
    /\ items' = dropResult(items, draggedItem, items[k], g, now).items
    /\ last' = Event("dragover", items[k], draggedItem, g, "return")
    /\ UNCHANGED <<openFolder, draggedItem, now, drag>>

\* handleDragOver recording a reorder when no dragged entry is recorded.
handleDragOver_idle(k, g) ==
    /\ GridEventPossible
    /\ IF draggedItem # Null /\ draggedItem.id = items[k].id
       THEN /\ dragTarget' = dragTarget
            /\ last' = Event("dragover", items[k], draggedItem, g, "return")
       ELSE /\ dragTarget' =
                  [id |-> items[k].id,
                   action |-> IF draggedItem = Null THEN "reorder-before"
                              ELSE overAction(draggedItem, items[k], g)]
            /\ last' = Event("dragover", items[k], draggedItem, g,
                             IF draggedItem = Null THEN "reorder-before"
                             ELSE overAction(draggedItem, items[k], g))
    /\ UNCHANGED <<items, openFolder, draggedItem, now, drag>>

\* handleDragOver without the comparison of the dragged id with the target's id.
handleDragOver_self(k, g) ==
    /\ GridEventPossible
    /\ IF draggedItem = Null
       THEN /\ dragTarget' = dragTarget
            /\ last' = Event("dragover", items[k], draggedItem, g, "return")
       ELSE /\ dragTarget' = [id |-> items[k].id,
                              action |-> overAction(draggedItem, items[k], g)]
            /\ last' = Event("dragover", items[k], draggedItem, g,
                             IF draggedItem.id = items[k].id THEN "return"
                             ELSE overAction(draggedItem, items[k], g))
    /\ UNCHANGED <<items, openFolder, draggedItem, now, drag>>

\* handleDragOver(e, item), item = items[k], pointer and box g.
handleDragOver(k, g) ==
    /\ GridEventPossible
    /\ IF draggedItem = Null \/ draggedItem.id = items[k].id
       THEN /\ dragTarget' = dragTarget
            /\ last' = Event("dragover", items[k], draggedItem, g, "return")
       ELSE /\ dragTarget' = [id |-> items[k].id,
                              action |-> overAction(draggedItem, items[k], g)]
            /\ last' = Event("dragover", items[k], draggedItem, g,
                             overAction(draggedItem, items[k], g))
    /\ UNCHANGED <<items, openFolder, draggedItem, now, drag>>

\* handleDragLeave leaving the preview as it is.
handleDragLeave_keep ==
    /\ GridEventPossible
    /\ dragTarget' = dragTarget
    /\ last' = Event("dragleave", Null, draggedItem, NoPt, "")
    /\ UNCHANGED <<items, openFolder, draggedItem, now, drag>>

\* handleDragLeave()
handleDragLeave ==
    /\ GridEventPossible
    /\ dragTarget' = Null
    /\ last' = Event("dragleave", Null, draggedItem, NoPt, "")
    /\ UNCHANGED <<items, openFolder, draggedItem, now, drag>>

\* handleDrop(e, targetItem), pointer and box g. The drop ends the browser's
\* drag session.
handleDropOn(targetItem, g) ==
    LET r == dropResult(items, draggedItem, targetItem, g, now) IN
    /\ GridEventPossible
    /\ dragTarget' = Null
    /\ items' = r.items
    /\ draggedItem' = r.draggedItem
    /\ drag' = NoDrag
    /\ last' = Event("drop", targetItem, draggedItem, g, r.op)
    /\ UNCHANGED <<openFolder, now>>

\* handleDrop(e, targetItem) as the grid calls it: onDrop={(e) => handleDrop(e, item)}
\* for item = items[k] of the rendered list.
handleDrop(k, g) == handleDropOn(items[k], g)

\* The drag ends without a drop on a grid entry or on the folder view (released
\* outside every drop target, or Escape). The browser fires dragleave at the
\* current target, which runs handleDragLeave when that is a grid entry (when
\* the pointer had left the entry before, handleDragLeave has run already), and
\* then dragend at the source element, for which neither BookmarkGrid nor
\* FolderView has a handler.
DragEnd ==
    /\ drag.src # "none"
    /\ drag' = NoDrag
    /\ dragTarget' = Null
    /\ last' = Event("dragend", Null, draggedItem, NoPt, "")
    /\ UNCHANGED <<items, openFolder, draggedItem, now>>

\* A drag that starts outside the grid and the folder view.
ExternalDragStart ==
    /\ drag.src = "none"
    /\ drag' = ExternalPayload
    /\ last' = Event("external-dragstart", Null, draggedItem, NoPt, "")
    /\ UNCHANGED <<items, openFolder, draggedItem, dragTarget, now>>

\* ------------------------------------------------------- App and FolderView
\* BookmarkGrid entry onClick: if (item.type === 'folder') onOpenFolder(item);
\* App passes onOpenFolder={setOpenFolder}.
OpenFolder(k) ==
    /\ drag.src = "none"
    /\ openFolder = Null
    /\ items[k].type = "folder"
    /\ openFolder' = items[k]
    /\ last' = Event("open", items[k], draggedItem, NoPt, "")
    /\ UNCHANGED <<items, draggedItem, dragTarget, now, drag>>

\* FolderView onClose={() => setOpenFolder(null)}
CloseFolder ==
    /\ drag.src = "none"
    /\ openFolder # Null
    /\ openFolder' = Null
    /\ last' = Event("close", Null, draggedItem, NoPt, "")
    /\ UNCHANGED <<items, draggedItem, dragTarget, now, drag>>

\* FolderView.handleDragStart(e, item), item = folder.children[j].
FolderDragStart(j) ==
    /\ drag.src = "none"
    /\ openFolder # Null
    /\ drag' = FolderPayload(openFolder.children[j], openFolder)
    /\ last' = Event("folder-dragstart", openFolder.children[j], draggedItem, NoPt, "")
    /\ UNCHANGED <<items, openFolder, draggedItem, dragTarget, now>>

\* removeFromFolderItems leaving the folder's children as they were.
removeFromFolderItems_keep(prev, folder, item) ==
    replaceById(prev, folder) \o <<item>>

\* App.handleRemoveFromFolder(item), after its `if (!openFolder) return`:
\* the list committed by setItems(prev => ...).
removeFromFolderItems(prev, folder, item) ==
    LET updatedChildren == filterOut(folder.children, item.id)
        updatedFolder   == [folder EXCEPT !.children = updatedChildren]
    IN  replaceById(prev, updatedFolder) \o <<item>>

\* App.handleRemoveFromFolder(item): the value given to setOpenFolder.
removeFromFolderOpen(folder, item) ==
    [folder EXCEPT !.children = filterOut(folder.children, item.id)]

\* FolderView.handleBackdropDrop: the child the payload names, or Null when the
\* handler returns without calling onRemoveFromFolder.
backdropItem(folder, data) ==
    IF data.type = "" THEN Null
    ELSE IF data.type = "folder-item" /\ data.fromFolderId = folder.id
         THEN LET j == findIndex(folder.children, data.id)
              IN  IF j = NotFound THEN Null ELSE folder.children[j]
         ELSE Null

\* FolderView.handleBackdropDrop(e) with App.handleRemoveFromFolder: a drop on
\* the open folder view. The drop ends the browser's drag session.
handleBackdropDrop ==
    LET item == backdropItem(openFolder, drag) IN
    /\ drag.src # "none"
    /\ openFolder # Null
    /\ drag' = NoDrag
    /\ IF item = Null
       THEN /\ last' = Event("backdrop-drop", Null, draggedItem, NoPt, "return")
            /\ UNCHANGED <<items, openFolder>>
       ELSE /\ items' = removeFromFolderItems(items, openFolder, item)
            /\ openFolder' = removeFromFolderOpen(openFolder, item)
            /\ last' = Event("backdrop-drop", item, draggedItem, NoPt, "drag-out")
    /\ UNCHANGED <<draggedItem, dragTarget, now>>

\* App.handleUpdateFolder(updatedFolder)
handleUpdateFolder(updatedFolder) ==
    /\ items' = replaceById(items, updatedFolder)
    /\ openFolder' = IF openFolder # Null /\ openFolder.id = updatedFolder.id
                     THEN updatedFolder ELSE openFolder

\* FolderView.handleRemoveFromFolder dropping the children after the removed one too.
withoutChild_cut(folder, itemId) ==
    [folder EXCEPT !.children =
        SubSeq(@, 1, (CHOOSE i \in 1..Len(@) : @[i].id = itemId) - 1)]

\* FolderView.handleRemoveFromFolder(itemId): the folder handed to onUpdateFolder,
\* { ...folder, children: folder.children?.filter(c => c.id !== itemId) || [] }.
withoutChild(folder, itemId) ==
    [folder EXCEPT !.children = filterOut(@, itemId)]

\* The folder view's context menu on the child folder.children[j], then its
\* Remove button: handleRemoveFromFolder(contextMenu.item.id), which calls
\* onUpdateFolder = App.handleUpdateFolder.
ContextRemove(j) ==
    /\ drag.src = "none"
    /\ openFolder # Null
    /\ handleUpdateFolder(withoutChild(openFolder, openFolder.children[j].id))
    /\ last' = Event("remove", openFolder.children[j], draggedItem, NoPt, "remove")
    /\ UNCHANGED <<draggedItem, dragTarget, now, drag>>

\* The payloads a drag from another window of the page can carry: a grid entry
\* of that window, or a child of a folder open in that window.
ForeignPayloads ==
    { [src |-> "external", type |-> "grid-item", id |-> Twitter.id, fromFolderId |-> NoId],
      [src |-> "external", type |-> "folder-item", id |-> Twitter.id,
       fromFolderId |-> Id("", 5)],
      [src |-> "external", type |-> "folder-item", id |-> GitHub.id,
       fromFolderId |-> Social.id] }

\* A drag that starts in another window of the page.
ForeignDragStart(payload) ==
    /\ drag.src = "none"
    /\ drag' = payload
    /\ last' = Event("external-dragstart", Null, draggedItem, NoPt, "")
    /\ UNCHANGED <<items, openFolder, draggedItem, dragTarget, now>>

\* ------------------------------------------------- EditItemModal and App
\* The grid's context menu and its Add button can be used while neither the
\* edit modal nor the folder view covers the grid and no drag is in progress.
GridMenuPossible == editItem = Null /\ openFolder = Null /\ drag.src = "none"

\* Context menu Edit on items[k]: onEditItem(contextMenu.item), App passes
\* onEditItem={(item) => setEditItem({item})}.
editOpen(k) ==
    /\ GridMenuPossible
    /\ editItem' = [item |-> items[k]]
    /\ last' = Event("edit-open", items[k], draggedItem, NoPt, "")
    /\ UNCHANGED <<grid, now, history, searchHistory, maxHistoryItems, restore, suggest, wallpaper>>

\* App.handleAddItem: setEditItem({ item: null })
handleAddItem ==
    /\ GridMenuPossible
    /\ editItem' = [item |-> Null]
    /\ last' = Event("add-open", Null, draggedItem, NoPt, "")
    /\ UNCHANGED <<grid, now, history, searchHistory, maxHistoryItems, restore, suggest, wallpaper>>

\* EditItemModal onClose={() => setEditItem(null)} (the X button, the backdrop).
editClose ==
    /\ editItem # Null
    /\ editItem' = Null
    /\ last' = Event("edit-close", Null, draggedItem, NoPt, "")
    /\ UNCHANGED <<grid, now, history, searchHistory, maxHistoryItems, restore, suggest, wallpaper>>

\* The form as it is submitted: the Name typed and the stored icon. The modal
\* opens with the entry's title and icon ('' for a new shortcut); the user may
\* retype the Name (it is a required field), clear the icon or upload one.
FormTitles(item) == IF item = Null THEN {"Added"} ELSE {item.title, "Renamed"}

FormIcons(item) == IF item = Null THEN {"", "custom"} ELSE {item.icon, "", "custom"}

\* EditItemModal.handleSubmit: newItem, with
\* finalIcon = storedIcon || `https://www.google.com/s2/favicons?domain=${url}&sz=128`
\* and, for a new shortcut, id = Date.now().toString().
newItem(item, title, storedIcon, t) ==
    [id |-> IF item # Null THEN item.id ELSE Id("", t),
     type |-> "link",
     title |-> title,
     icon |-> IF storedIcon # "" THEN storedIcon ELSE "favicon",
     children |-> <<>>]

\* saveItems putting the edited entry at the end of the list.
saveItems_last(prev, edit, saved) ==
    IF edit.item # Null
    THEN filterOut(prev, saved.id) \o <<saved>>
    ELSE prev \o <<saved>>

\* App.handleSaveItem(newItem): the list committed by setItems.
saveItems(prev, edit, saved) ==
    IF edit.item # Null
    THEN replaceById(prev, saved)
    ELSE prev \o <<saved>>

\* EditItemModal.handleSubmit(e): onSave(newItem) = App.handleSaveItem, then onClose().
handleSubmit(title, storedIcon) ==
    LET saved == newItem(editItem.item, title, storedIcon, now) IN
    /\ editItem # Null
    /\ items' = saveItems(items, editItem, saved)
    /\ editItem' = Null
    /\ last' = Event("save", saved, draggedItem, NoPt,
                     IF editItem.item # Null THEN "edit" ELSE "add")
    /\ UNCHANGED <<openFolder, draggedItem, dragTarget, drag, ptr, seen, now,
                   history, searchHistory, maxHistoryItems, restore, suggest,
                   wallpaper>>

\* Context menu Delete on items[k]: App.handleDeleteItem(id).
handleDeleteItem(k) ==
    /\ GridMenuPossible
    /\ items' = filterOut(items, items[k].id)
    /\ last' = Event("delete", items[k], draggedItem, NoPt, "")
    /\ UNCHANGED <<openFolder, draggedItem, dragTarget, drag, ptr, seen, now, panels>>

\* ------------------------------------------------------------- SearchBar
\* The queries typed: the empty one, a blank one, 'a', 'a' after a space, 'b'.
Queries == {"", " ", "a", " a", "b"}

\* String.prototype.trim() on the queries.
trim(q) ==
    CASE q = " " -> ""
      [] q = " a" -> "a"
      [] OTHER -> q

\* Array.prototype.slice(0, n), n >= 0.
slice0(s, n) == SubSeq(s, 1, IF n > Len(s) THEN Len(s) ELSE n)

\* JSON.stringify of an array of strings: the text as its tokens, the brackets,
\* the commas between the elements and each element as a quoted string.
Punct(c) == [tok |-> c, quoted |-> ""]

Quoted(str) == [tok |-> "string", quoted |-> str]

RECURSIVE elementTokens(_)
elementTokens(h) ==
    IF h = <<>> THEN <<>>
    ELSE IF Len(h) = 1 THEN <<Quoted(h[1])>>
         ELSE <<Quoted(h[1]), Punct(",")>> \o elementTokens(Tail(h))

JSONstringify(h) == <<Punct("[")>> \o elementTokens(h) \o <<Punct("]")>>

\* JSON.parse of such a text: the quoted strings between the brackets, in order.
JSONparse(text) ==
    LET inner == SubSeq(text, 2, Len(text) - 1)
        strs  == SelectSeq(inner, LAMBDA t : t # Punct(","))
    IN  [i \in 1..Len(strs) |-> strs[i].quoted]

\* useState initializer: saved ? JSON.parse(saved) : []
savedHistory(saved) == IF saved = Null THEN <<>> ELSE JSONparse(saved)

\* newHistory keeping the earlier occurrences of the query.
newHistory_repeat(searchQuery, hist, max) ==
    slice0(<<searchQuery>> \o hist, max)

\* handleSearch: [searchQuery, ...history.filter(h => h !== searchQuery)]
\*                   .slice(0, maxHistoryItems)
newHistory(searchQuery, hist, max) ==
    slice0(<<searchQuery>> \o SelectSeq(hist, LAMBDA h : h # searchQuery), max)

\* handleSearch(searchQuery); after saving, the page navigates to the engine.
handleSearch(searchQuery) ==
    /\ IF trim(searchQuery) = ""
       THEN /\ UNCHANGED <<history, searchHistory>>
            /\ last' = Event("search", searchQuery, draggedItem, NoPt, "return")
       ELSE /\ history' = newHistory(searchQuery, history, maxHistoryItems)
            /\ searchHistory' =
                   JSONstringify(newHistory(searchQuery, history, maxHistoryItems))
            /\ last' = Event("search", searchQuery, draggedItem, NoPt, "navigate")
    /\ UNCHANGED <<grid, now, editItem, maxHistoryItems, restore, suggest, wallpaper>>

\* handleDeleteHistory(e, itemToDelete), itemToDelete = displayHistory[j],
\* displayHistory = history.slice(0, maxHistoryItems).
handleDeleteHistory(j) ==
    LET itemToDelete == slice0(history, maxHistoryItems)[j]
        kept == SelectSeq(history, LAMBDA h : h # itemToDelete)
    IN  /\ history' = kept
        /\ searchHistory' = JSONstringify(kept)
        /\ last' = Event("delete-history", itemToDelete, draggedItem, NoPt, "")
        /\ UNCHANGED <<grid, now, editItem, maxHistoryItems, restore, suggest, wallpaper>>

\* SettingsModal, Max Search History slider:
\* onSave({...settings, maxHistoryItems: parseInt(e.target.value)})
setMaxHistoryItems(n) ==
    /\ maxHistoryItems' = n
    /\ last' = Event("max-history", Null, draggedItem, NoPt, "")
    /\ UNCHANGED <<grid, now, editItem, history, searchHistory, restore, suggest, wallpaper>>

\* The page is loaded again: SearchBar's history is initialized from localStorage.
reloadSearchBar ==
    /\ history' = savedHistory(searchHistory)
    /\ last' = Event("reload", Null, draggedItem, NoPt, "")
    /\ UNCHANGED <<grid, now, editItem, searchHistory, maxHistoryItems, restore, suggest, wallpaper>>

\* ------------------------------------------- SearchBar: the suggestions
\* What the closure of the effect's fetchSuggestions captures: the dependencies
\* [query, currentEngine.id, maxSuggestions] of the render that ran the effect.
Captured(q, engine, max) == [query |-> q, engine |-> engine, max |-> max]

\* handleKeyDown: const items = query === '' ? displayHistory : suggestions
listed == IF query = "" THEN slice0(history, maxHistoryItems) ELSE suggestions

\* input onChange: setQuery(e.target.value). The render with the new query runs
\* the cleanup of the fetch effect (clearTimeout), sets a new timer, and runs
\* the reset effect (setSelectedIndex(-1)).
setQuery(q) ==
    /\ q # query
    /\ query' = q
    /\ selectedIndex' = -1
    /\ timer' = Captured(q, currentEngineId, maxSuggestions)
    /\ last' = Event("type", q, draggedItem, NoPt, "")
    /\ UNCHANGED <<grid, now, editItem, history, searchHistory, maxHistoryItems,
                   restore, wallpaper, suggestions, fetches, currentEngineId,
                   maxSuggestions>>

\* Engine menu: onEngineChange(engine.id). currentEngine.id is a dependency of
\* the fetch effect only.
onEngineChange(engine) ==
    /\ engine # currentEngineId
    /\ currentEngineId' = engine
    /\ timer' = Captured(query, engine, maxSuggestions)
    /\ last' = Event("engine", engine, draggedItem, NoPt, "")
    /\ UNCHANGED <<grid, now, editItem, history, searchHistory, maxHistoryItems,
                   restore, wallpaper, query, suggestions, selectedIndex, fetches,
                   maxSuggestions>>

\* SettingsModal, Max Search Suggestions: onSave({...settings, maxSuggestions: n}).
setMaxSuggestions(n) ==
    /\ isSettingsOpen
    /\ n # maxSuggestions
    /\ maxSuggestions' = n
    /\ timer' = Captured(query, currentEngineId, n)
    /\ last' = Event("max-suggestions", Null, draggedItem, NoPt, "")
    /\ UNCHANGED <<grid, now, editItem, history, searchHistory, maxHistoryItems,
                   restore, wallpaper, query, suggestions, selectedIndex, fetches,
                   currentEngineId>>

\* The debounce timer fires: fetchSuggestions() up to its first await. With a
\* blank query or maxSuggestions 0 it sets suggestions to a new empty array
\* (the reset effect then sets selectedIndex to -1); otherwise the request is
\* sent. Nothing cancels a request once it is sent: the effect's cleanup is
\* clearTimeout(timer) only.
fetchSuggestions ==
    /\ timer # Null
    /\ IF trim(timer.query) = "" \/ timer.max = 0
       THEN /\ suggestions' = <<>>
            /\ selectedIndex' = -1
            /\ fetches' = fetches
       ELSE /\ fetches' = fetches \cup {timer}
            /\ UNCHANGED <<suggestions, selectedIndex>>
    /\ timer' = Null
    /\ last' = Event("timer", timer, draggedItem, NoPt, "")
    /\ UNCHANGED <<grid, now, editItem, history, searchHistory, maxHistoryItems,
                   restore, wallpaper, query, currentEngineId, maxSuggestions>>

\* fetchSuggestions() after `await fetch(apiUrl)` for the request c: the
\* response carries the list data (data[1] of the OpenSearch answer), or the
\* request failed. setSuggestions gets a new array either way, so the reset
\* effect runs.
fetchSettled(c, ok, data) ==
    /\ c \in fetches
    /\ fetches' = fetches \ {c}
    /\ suggestions' = IF ok THEN slice0(data, c.max) ELSE <<>>
    /\ selectedIndex' = -1
    /\ last' = Event("suggestions", c, draggedItem, NoPt, IF ok THEN "ok" ELSE "error")
    /\ UNCHANGED <<grid, now, editItem, history, searchHistory, maxHistoryItems,
                   restore, wallpaper, query, timer, currentEngineId, maxSuggestions>>

\* handleKeyDown, the keys ArrowDown, ArrowUp and Escape.
handleKeyDown(key) ==
    /\ selectedIndex' =
          IF key = "ArrowDown"
          THEN (IF selectedIndex < Len(listed) - 1 THEN selectedIndex + 1 ELSE selectedIndex)
          ELSE IF key = "ArrowUp"
          THEN (IF selectedIndex > 0 THEN selectedIndex - 1 ELSE -1)
          ELSE -1
    /\ last' = Event("key", key, draggedItem, NoPt, "")
    /\ UNCHANGED <<grid, now, editItem, history, searchHistory, maxHistoryItems,
                   restore, wallpaper, query, suggestions, timer, fetches,
                   currentEngineId, maxSuggestions>>

\* ------------------------------------------ SettingsModal: backup, wallpapers
\* A backup file: whether JSON.parse accepts its text, and the version and
\* bookmarks members of the value parsed (version "" when there is none,
\* isArray FALSE when bookmarks is missing or not an array).
File(json, version, isArray, bookmarks) ==
    [json |-> json, version |-> version, isArray |-> isArray, bookmarks |-> bookmarks]

\* utils/backup.ts importBookmarks(file): how the promise settles.
importBookmarks(file) ==
    IF ~file.json
    THEN [ok |-> FALSE, bookmarks |-> <<>>]
    ELSE IF file.version = "" \/ ~file.isArray
    THEN [ok |-> FALSE, bookmarks |-> <<>>]
    ELSE [ok |-> TRUE, bookmarks |-> file.bookmarks]

\* listWallpapers(): the records of the store, newest first.
listWallpapers(store) == SelectSeq(Wallpapers, LAMBDA w : w \in store)

\* The object URL made for the blob of wallpaper id.
urlOf(id) == IF id = "w1" THEN "blob:w1" ELSE "blob:w2"

\* The settings panel is a drawer on the right (z-50, no backdrop): the folder
\* view (z-90) and the edit modal (z-100) cover it and its trigger, the grid
\* stays usable beside it.
SettingsReachable == openFolder = Null /\ editItem = Null /\ drag.src = "none"

\* Settings trigger: setIsSettingsOpen(true); the modal's effect on isOpen
\* loads the wallpaper list from the store.
openSettings ==
    /\ ~isSettingsOpen
    /\ SettingsReachable
    /\ isSettingsOpen' = TRUE
    /\ customWallpapers' = listWallpapers(wallpaperStore)
    /\ last' = Event("settings", Null, draggedItem, NoPt, "open")
    /\ UNCHANGED <<grid, now, editItem, history, searchHistory, maxHistoryItems,
                   suggest, imports, backgroundImage, backgroundImageId,
                   wallpaperStore, deletes>>

\* SettingsModal onClose: setIsSettingsOpen(false).
closeSettings ==
    /\ isSettingsOpen
    /\ SettingsReachable
    /\ isSettingsOpen' = FALSE
    /\ last' = Event("settings", Null, draggedItem, NoPt, "close")
    /\ UNCHANGED <<grid, now, editItem, history, searchHistory, maxHistoryItems,
                   suggest, wallpaper, imports>>

\* handleImportBookmarks(e) up to importBookmarks(file): the FileReader starts
\* reading the chosen file.
handleImportBookmarks(file) ==
    /\ isSettingsOpen
    /\ SettingsReachable
    /\ imports' = imports \cup {file}
    /\ last' = Event("import-start", file, draggedItem, NoPt, "")
    /\ UNCHANGED <<grid, now, editItem, history, searchHistory, maxHistoryItems,
                   suggest, wallpaper, isSettingsOpen>>

\* App.handleRestoreBookmarks(bookmarks): setItems(bookmarks)
handleRestoreBookmarks(bookmarks) == bookmarks

\* reader.onload for file, then the .then or the .catch of
\* handleImportBookmarks: onRestoreBookmarks(bookmarks) or an alert only.
importSettled(file) ==
    LET r == importBookmarks(file) IN
    /\ file \in imports
    /\ imports' = imports \ {file}
    /\ items' = IF r.ok THEN handleRestoreBookmarks(r.bookmarks) ELSE items
    /\ last' = Event("import", file, draggedItem, NoPt,
                     IF r.ok THEN "restore" ELSE "reject")
    /\ UNCHANGED <<openFolder, draggedItem, dragTarget, drag, ptr, seen, now,
                   editItem, history, searchHistory, maxHistoryItems, suggest,
                   wallpaper, isSettingsOpen>>

\* Preset thumbnail: onSave({...settings, backgroundImage: url, backgroundImageId: undefined})
selectPreset(i) ==
    /\ isSettingsOpen
    /\ backgroundImage' = PRESET_BACKGROUNDS[i]
    /\ backgroundImageId' = undefined
    /\ last' = Event("preset", Null, draggedItem, NoPt, "")
    /\ UNCHANGED <<grid, now, editItem, history, searchHistory, maxHistoryItems,
                   suggest, restore, customWallpapers, wallpaperStore, deletes>>

\* Custom thumbnail: onSave({...settings, backgroundImage: item.url, backgroundImageId: item.id})
\* for item = customWallpapers[j] of the rendered list.
selectCustom(j) ==
    /\ isSettingsOpen
    /\ backgroundImage' = urlOf(customWallpapers[j])
    /\ backgroundImageId' = customWallpapers[j]
    /\ last' = Event("custom", Null, draggedItem, NoPt, "")
    /\ UNCHANGED <<grid, now, editItem, history, searchHistory, maxHistoryItems,
                   suggest, restore, customWallpapers, wallpaperStore, deletes>>

\* handleDeleteCustom(e, id) up to `await deleteWallpaper(id)`, for the
\* thumbnail customWallpapers[j]: the rest of the handler will run with the
\* settings and customWallpapers of the render in which the button was clicked.
handleDeleteCustom(j) ==
    /\ isSettingsOpen
    /\ deletes' = deletes \cup
          {[id |-> customWallpapers[j],
            backgroundImageId |-> backgroundImageId,
            customWallpapers |-> customWallpapers]}
    /\ last' = Event("delete-wallpaper", Null, draggedItem, NoPt, "")
    /\ UNCHANGED <<grid, now, editItem, history, searchHistory, maxHistoryItems,
                   suggest, restore, backgroundImage, backgroundImageId,
                   customWallpapers, wallpaperStore>>

\* deleteWallpaper(id) succeeded and the handler d resumes: the record is
\* gone from the store, setCustomWallpapers(newWallpapers), and onSave with
\* the first preset if the captured settings had this id. (The other members
\* of the captured settings, written back by the same onSave, are members no
\* action changes while the panel is open on the wallpapers.)
deleteSettled(d) ==
    /\ d \in deletes
    /\ deletes' = deletes \ {d}
    /\ wallpaperStore' = wallpaperStore \ {d.id}
    /\ customWallpapers' = SelectSeq(d.customWallpapers, LAMBDA w : w # d.id)
    /\ IF d.backgroundImageId = d.id
       THEN /\ backgroundImage' = PRESET_BACKGROUNDS[1]
            /\ backgroundImageId' = undefined
       ELSE UNCHANGED <<backgroundImage, backgroundImageId>>
    /\ last' = Event("wallpaper-deleted", Null, draggedItem, NoPt,
                     IF d.backgroundImageId = d.id THEN "preset" ELSE "")
    /\ UNCHANGED <<grid, now, editItem, history, searchHistory, maxHistoryItems,
                   suggest, restore>>

\* deleteWallpaper(id) rejected: the catch logs a warning.
deleteFailed(d) ==
    /\ d \in deletes
    /\ deletes' = deletes \ {d}
    /\ last' = Event("wallpaper-deleted", Null, draggedItem, NoPt, "error")
    /\ UNCHANGED <<grid, now, editItem, history, searchHistory, maxHistoryItems,
                   suggest, restore, backgroundImage, backgroundImageId,
                   customWallpapers, wallpaperStore>>

\* The clock advances (it never goes back).
Tick ==
    /\ now < MaxNow
    /\ now' = now + 1
    /\ last' = Event("tick", Null, draggedItem, NoPt, "")
    /\ UNCHANGED <<items, openFolder, draggedItem, dragTarget, drag>>

\* --------------------------------------------------------------- geometry
\* Pointer samples of the drag machine: in a 100 by 100 box, the left and right
\* edge zones and the left and right halves of the central zone.
GeomSamples ==
    { Pt(10, 50, 100, 100), Pt(40, 50, 100, 100),
      Pt(60, 50, 100, 100), Pt(90, 50, 100, 100) }

\* Pointer positions inside boxes of width and height 0, 4 and 100.
Sizes == {0, 4, 100}
Coords == {0, 2, 4, 10, 24, 25, 26, 50, 74, 75, 76, 90, 100}
Geoms ==
    { Pt(x, y, W, H) : x \in Coords, y \in Coords, W \in Sizes, H \in Sizes }

InBox(g) == g.x <= g.W /\ g.y <= g.H

\* ---------------------------------------------------------- specification
\* The edit modal closed, an empty search history (nothing stored under
\* 'searchHistory') and DEFAULT_SETTINGS.maxHistoryItems.
SettingsConstructed ==
    /\ isSettingsOpen = FALSE
    /\ imports = {}
    /\ backgroundImage = DEFAULT_BACKGROUND
    /\ backgroundImageId = undefined
    /\ customWallpapers = <<>>
    /\ wallpaperStore = {}
    /\ deletes = {}

\* The search bar with an empty input, once the debounce timer set on mount
\* has fired (it finds the query empty and sets suggestions to []).
SuggestConstructed ==
    /\ query = ""
    /\ suggestions = <<>>
    /\ selectedIndex = -1
    /\ timer = Null
    /\ fetches = {}
    /\ currentEngineId = "google"
    /\ maxSuggestions = 5

PanelsConstructed ==
    /\ editItem = Null
    /\ history = <<>>
    /\ searchHistory = Null
    /\ maxHistoryItems = 5
    /\ SettingsConstructed
    /\ SuggestConstructed

\* The state of the App and the BookmarkGrid after construction from a saved list.
Constructed(saved) ==
    /\ PanelsConstructed
    /\ items = saved
    /\ openFolder = Null
    /\ draggedItem = Null
    /\ dragTarget = Null
    /\ now = 0
    /\ drag = NoDrag
    /\ ptr = NoPt
    /\ last = Event("init", Null, Null, NoPt, "")
    /\ seen = {}

\* A drop that synthesizes a folder is explored only below the bound.
Bounded(k, g, bound) ==
    dropResult(items, draggedItem, items[k], g, now).op = "merge-new"
        => TreeSize(items) < bound

GridDragStart == \E k \in 1..Len(items) : handleDragStart(k) /\ UNCHANGED <<ptr, seen, panels>>
GridDragOver ==
    \E k \in 1..Len(items), g \in GeomSamples :
        handleDragOver(k, g) /\ UNCHANGED <<ptr, seen, panels>>
GridDragLeave == handleDragLeave /\ UNCHANGED <<ptr, seen, panels>>
GridDrop ==
    \E k \in 1..Len(items), g \in GeomSamples :
        Bounded(k, g, MaxEntries) /\ handleDrop(k, g) /\ UNCHANGED <<ptr, seen, panels>>
Cancel == DragEnd /\ UNCHANGED <<ptr, seen, panels>>
ExternalStart == ExternalDragStart /\ UNCHANGED <<ptr, seen, panels>>
Open == \E k \in 1..Len(items) : OpenFolder(k) /\ UNCHANGED <<ptr, seen, panels>>
Close == CloseFolder /\ UNCHANGED <<ptr, seen, panels>>
FolderStart ==
    /\ openFolder # Null
    /\ \E j \in 1..Len(openFolder.children) :
           FolderDragStart(j) /\ UNCHANGED <<ptr, seen, panels>>
BackdropDrop == handleBackdropDrop /\ UNCHANGED <<ptr, seen, panels>>
ClockTick == Tick /\ UNCHANGED <<ptr, seen, panels>>

\* Spec: the drag machine, from a link and an empty folder.
Init == Constructed(SAVED_LINK_FOLDER)

Next ==
    \/ GridDragStart
    \/ GridDragOver
    \/ GridDragLeave
    \/ GridDrop
    \/ Cancel
    \/ ExternalStart
    \/ Open
    \/ Close
    \/ FolderStart
    \/ BackdropDrop
    \/ ClockTick

Spec == Init /\ [][Next]_vars

\* SpecMerge: the same machine from two links, with room for two synthesized folders.
InitMerge == Constructed(SAVED_TWO_LINKS)

MergeDrop ==
    \E k \in 1..Len(items), g \in GeomSamples :
        Bounded(k, g, MaxMergeEntries) /\ handleDrop(k, g) /\ UNCHANGED <<ptr, seen, panels>>

NextMerge ==
    \/ GridDragStart
    \/ GridDragOver
    \/ GridDragLeave
    \/ MergeDrop
    \/ Cancel
    \/ ExternalStart
    \/ Open
    \/ Close
    \/ FolderStart
    \/ BackdropDrop
    \/ ClockTick

SpecMerge == InitMerge /\ [][NextMerge]_vars

\* SpecClassify: one gesture over SAVED_BOOKMARKS. An entry has been picked up
\* (the state after handleDragStart on it) and the pointer sample ptr is drawn
\* from Geoms and kept for the whole gesture; drag-over and drop on any target
\* use it, and seen collects every classification made.
InitClassify ==
    /\ PanelsConstructed
    /\ items = SAVED_BOOKMARKS
    /\ openFolder = Null
    /\ draggedItem \in {SAVED_BOOKMARKS[k] : k \in 1..Len(SAVED_BOOKMARKS)}
    /\ dragTarget = Null
    /\ now = 0
    /\ drag = GridPayload(draggedItem)
    /\ ptr \in {g \in Geoms : InBox(g)}
    /\ last = Event("dragstart", draggedItem, Null, NoPt, "")
    /\ seen = {}

\* The intent a branch of handleDrop stands for.
intentOf(op) ==
    IF op \in {"merge-folder", "merge-new"} THEN "merge" ELSE op

Classified(kind) ==
    IF last'.op = "return" THEN seen
    ELSE seen \cup {[kind |-> kind, dragged |-> last'.dragged.id,
                     target |-> last'.target.id, intent |-> intentOf(last'.op)]}

ClassifyOver ==
    \E k \in 1..Len(items) :
        handleDragOver(k, ptr) /\ seen' = Classified("over") /\ UNCHANGED <<ptr, panels>>
ClassifyLeave == handleDragLeave /\ UNCHANGED <<ptr, seen, panels>>
ClassifyDrop ==
    \E k \in 1..Len(items) :
        handleDrop(k, ptr) /\ seen' = Classified("drop") /\ UNCHANGED <<ptr, panels>>

NextClassify ==
    \/ ClassifyOver
    \/ ClassifyLeave
    \/ ClassifyDrop

SpecClassify == InitClassify /\ [][NextClassify]_vars

\* SpecFolder: grid drops, the folder view's drag-out and its context-menu
\* Remove, from a link and a folder with two children. A folder is synthesized
\* only when the clock value gives it an id that is not in the tree.
InitFolder == Constructed(SAVED_LINK_SOCIAL)

FolderGridDrop ==
    \E k \in 1..Len(items), g \in {Pt(10, 50, 100, 100), Pt(40, 50, 100, 100)} :
        /\ Bounded(k, g, MaxFolderEntries)
        /\ dropResult(items, draggedItem, items[k], g, now).op = "merge-new"
               => newFolderId(now) \notin IdSet(items)
        /\ handleDrop(k, g)
        /\ UNCHANGED <<ptr, seen, panels>>
ForeignStart ==
    \E payload \in ForeignPayloads : ForeignDragStart(payload) /\ UNCHANGED <<ptr, seen, panels>>
Remove ==
    /\ openFolder # Null
    /\ \E j \in 1..Len(openFolder.children) :
           ContextRemove(j) /\ UNCHANGED <<ptr, seen, panels>>

NextFolder ==
    \/ GridDragStart
    \/ FolderGridDrop
    \/ Cancel
    \/ ForeignStart
    \/ Open
    \/ Close
    \/ FolderStart
    \/ BackdropDrop
    \/ Remove

SpecFolder == InitFolder /\ [][NextFolder]_vars

\* SpecEdit: the edit modal over the grid, with Add and Delete. A shortcut is
\* added only with an id that is not in the tree.
InitEdit == Constructed(SAVED_BOOKMARKS)

EditOpen == \E k \in 1..Len(items) : editOpen(k)
AddOpen == Len(items) < MaxEditEntries /\ handleAddItem
EditClose == editClose
Submit ==
    /\ editItem # Null
    /\ editItem.item = Null => Id("", now) \notin IdSet(items)
    /\ \E title \in FormTitles(editItem.item), storedIcon \in FormIcons(editItem.item) :
           handleSubmit(title, storedIcon)
Delete == \E k \in 1..Len(items) : handleDeleteItem(k)

NextEdit ==
    \/ EditOpen
    \/ AddOpen
    \/ EditClose
    \/ Submit
    \/ Delete
    \/ ClockTick

SpecEdit == InitEdit /\ [][NextEdit]_vars

\* SpecSearch: the search bar. The page is constructed with a saved history
\* (nothing saved, or a list that may be longer than the setting and may hold
\* a string twice) and a saved Max Search History setting.
SAVED_HISTORIES ==
    { Null, JSONstringify(<<>>), JSONstringify(<<"a", "b">>),
      JSONstringify(<<"b", "c", "a", "d">>), JSONstringify(<<"b", "a", "b">>) }

InitSearch ==
    /\ items = SAVED_BOOKMARKS
    /\ openFolder = Null
    /\ draggedItem = Null
    /\ dragTarget = Null
    /\ now = 0
    /\ drag = NoDrag
    /\ ptr = NoPt
    /\ last = Event("init", Null, Null, NoPt, "")
    /\ seen = {}
    /\ editItem = Null
    /\ searchHistory \in SAVED_HISTORIES
    /\ history = savedHistory(searchHistory)
    /\ maxHistoryItems \in 0..MaxHistorySetting
    /\ SettingsConstructed
    /\ SuggestConstructed

Search == \E q \in Queries : handleSearch(q)
DeleteHistory ==
    \E j \in 1..Len(slice0(history, maxHistoryItems)) : handleDeleteHistory(j)
SetMaxHistory == \E n \in 0..MaxHistorySetting : setMaxHistoryItems(n)
Reload == reloadSearchBar

NextSearch ==
    \/ Search
    \/ DeleteHistory
    \/ SetMaxHistory
    \/ Reload

SpecSearch == InitSearch /\ [][NextSearch]_vars

\* SpecDrop: handleDrop as a function of its inputs. A list of at most
\* MaxDropLen of the entries GitHub, YouTube, ChatGPT and Social, an entry
\* recorded as dragged (in the list, or no longer in it) and a pointer sample
\* are drawn at the start; the drop is fired on an entry of the list.
DropEntries == {GitHub, YouTube, ChatGPT, Social}

DropLists ==
    {s \in UNION {[1..n -> DropEntries] : n \in 0..MaxDropLen} :
        \A i, j \in 1..Len(s) : s[i] = s[j] => i = j}

InitDrop ==
    /\ PanelsConstructed
    /\ items \in DropLists
    /\ openFolder = Null
    /\ draggedItem \in DropEntries
    /\ dragTarget = Null
    /\ now = 0
    /\ drag = GridPayload(draggedItem)
    /\ ptr \in GeomSamples
    /\ last = Event("dragstart", draggedItem, Null, NoPt, "")
    /\ seen = {}

DropOver ==
    \E k \in 1..Len(items) : handleDragOver(k, ptr) /\ UNCHANGED <<ptr, seen, panels>>
DropLeave == handleDragLeave /\ UNCHANGED <<ptr, seen, panels>>
DropOnEntry ==
    \E k \in 1..Len(items) : handleDrop(k, ptr) /\ UNCHANGED <<ptr, seen, panels>>

NextDrop ==
    \/ DropOver
    \/ DropLeave
    \/ DropOnEntry

SpecDrop == InitDrop /\ [][NextDrop]_vars

\* SpecDropAbsent: handleDrop handed, besides the entries of the list, a target
\* entry whose id is not in the list.
DropOnAbsent ==
    \E t \in DropEntries :
        /\ findIndex(items, t.id) = NotFound
        /\ handleDropOn(t, ptr)
        /\ UNCHANGED <<ptr, seen, panels>>

NextDropAbsent ==
    \/ DropOnEntry
    \/ DropOnAbsent

SpecDropAbsent == InitDrop /\ [][NextDropAbsent]_vars

\* SpecReorder: gestures that start on a grid entry and end in a drop on the
\* left or right edge of a grid entry, one after the other; seen holds the
\* previous drop (dragged id, target id, pointer, and whether it repeated the
\* drop before it).
EdgeSamples == {Pt(10, 50, 100, 100), Pt(90, 50, 100, 100)}

InitReorder ==
    /\ PanelsConstructed
    /\ items \in DropLists
    /\ openFolder = Null
    /\ draggedItem = Null
    /\ dragTarget = Null
    /\ now = 0
    /\ drag = NoDrag
    /\ ptr \in EdgeSamples
    /\ last = Event("mount", Null, Null, NoPt, "")
    /\ seen = {}

ReorderStart ==
    \E k \in 1..Len(items) :
        /\ handleDragStart(k)
        /\ ptr' \in EdgeSamples
        /\ UNCHANGED <<seen, panels>>

ReorderDrop ==
    \E k \in 1..Len(items) :
        /\ handleDrop(k, ptr)
        /\ seen' = {[dragged |-> draggedItem.id, target |-> items[k].id, g |-> ptr,
                     again |-> \E p \in seen : /\ p.dragged = draggedItem.id
                                               /\ p.target = items[k].id
                                               /\ p.g = ptr]}
        /\ UNCHANGED <<ptr, panels>>

NextReorder ==
    \/ ReorderStart
    \/ ReorderDrop

SpecReorder == InitReorder /\ [][NextReorder]_vars

\* SpecImport: the folder view and the import of a bookmarks backup, from a
\* link and a folder of two links. The backup files chosen: one that is not
\* JSON, one without a version, one whose bookmarks is not an array, two
\* exports of well-formed trees (one of them holding folder '3' with other
\* children), one listing an entry twice, one with a folder inside a folder.
BackupFiles ==
    { File(FALSE, "", FALSE, <<>>),
      File(TRUE, "", TRUE, <<GitHub>>),
      File(TRUE, "1.0", FALSE, <<>>),
      File(TRUE, "1.0", TRUE, <<GitHub, YouTube>>),
      File(TRUE, "0.9", TRUE, <<YouTube, Folder(Id("", 3), "Social", <<Reddit>>)>>),
      File(TRUE, "1.0", TRUE, <<GitHub, GitHub>>),
      File(TRUE, "1.0", TRUE, <<Folder(Id("", 5), "Outer", <<Social>>)>>) }

InitImport == Constructed(SAVED_LINK_SOCIAL)

SettingsOpen == openSettings
SettingsClose == closeSettings
ImportStart ==
    \E file \in BackupFiles :
        /\ Cardinality(imports \cup {file}) <= MaxImports
        /\ handleImportBookmarks(file)
ImportDone == \E file \in imports : importSettled(file)

NextImport ==
    \/ SettingsOpen
    \/ SettingsClose
    \/ ImportStart
    \/ ImportDone
    \/ Open
    \/ Close
    \/ FolderStart
    \/ BackdropDrop
    \/ Cancel
    \/ Remove

SpecImport == InitImport /\ [][NextImport]_vars

\* SpecSuggest: the search bar's input, suggestions and keyboard selection,
\* with a saved history of two searches.
SuggestQueries == {"", "a", "b"}
Engines == {"google", "bing"}
Responses == {<<"x", "y", "z">>, <<"y">>}

InitSuggest ==
    /\ items = SAVED_BOOKMARKS
    /\ openFolder = Null
    /\ draggedItem = Null
    /\ dragTarget = Null
    /\ now = 0
    /\ drag = NoDrag
    /\ ptr = NoPt
    /\ last = Event("init", Null, Null, NoPt, "")
    /\ seen = {}
    /\ editItem = Null
    /\ searchHistory = JSONstringify(<<"a", "b">>)
    /\ history = savedHistory(searchHistory)
    /\ maxHistoryItems = 5
    /\ SettingsConstructed
    /\ query = ""
    /\ suggestions = <<>>
    /\ selectedIndex = -1
    /\ timer = Null
    /\ fetches = {}
    /\ currentEngineId = "google"
    /\ maxSuggestions \in 0..MaxSuggestionSetting

Type == \E q \in SuggestQueries : setQuery(q)
Engine == \E engine \in Engines : onEngineChange(engine)
SetMaxSuggestions == \E n \in 0..MaxSuggestionSetting : setMaxSuggestions(n)
TimerFires ==
    /\ timer # Null
    /\ (trim(timer.query) # "" /\ timer.max # 0)
          => Cardinality(fetches \cup {timer}) <= MaxFetches
    /\ fetchSuggestions
Response == \E c \in fetches, data \in Responses : fetchSettled(c, TRUE, data)
ResponseError == \E c \in fetches : fetchSettled(c, FALSE, <<>>)
Key == \E key \in {"ArrowDown", "ArrowUp", "Escape"} : handleKeyDown(key)
RowDelete ==
    /\ query = ""
    /\ \E j \in 1..Len(slice0(history, maxHistoryItems)) : handleDeleteHistory(j)

NextSuggest ==
    \/ Type
    \/ Engine
    \/ SetMaxSuggestions
    \/ TimerFires
    \/ Response
    \/ ResponseError
    \/ Key
    \/ RowDelete
    \/ SettingsOpen
    \/ SettingsClose

SpecSuggest == InitSuggest /\ [][NextSuggest]_vars

\* SpecWallpaper: the wallpaper section of the settings panel, with two
\* uploaded wallpapers in the store and the default preset in use.
InitWallpaper ==
    /\ items = SAVED_BOOKMARKS
    /\ openFolder = Null
    /\ draggedItem = Null
    /\ dragTarget = Null
    /\ now = 0
    /\ drag = NoDrag
    /\ ptr = NoPt
    /\ last = Event("init", Null, Null, NoPt, "")
    /\ seen = {}
    /\ editItem = Null
    /\ history = <<>>
    /\ searchHistory = Null
    /\ maxHistoryItems = 5
    /\ SuggestConstructed
    /\ isSettingsOpen = FALSE
    /\ imports = {}
    /\ backgroundImage = DEFAULT_BACKGROUND
    /\ backgroundImageId = undefined
    /\ customWallpapers = <<>>
    /\ wallpaperStore = {"w1", "w2"}
    /\ deletes = {}

Preset == \E i \in 1..Len(PRESET_BACKGROUNDS) : selectPreset(i)
Custom == \E j \in 1..Len(customWallpapers) : selectCustom(j)
DeleteStart ==
    \E j \in 1..Len(customWallpapers) :
        /\ Cardinality(deletes) < MaxDeletes
        /\ handleDeleteCustom(j)
DeleteDone == \E d \in deletes : deleteSettled(d)
DeleteError == \E d \in deletes : deleteFailed(d)

NextWallpaper ==
    \/ SettingsOpen
    \/ SettingsClose
    \/ Preset
    \/ Custom
    \/ DeleteStart
    \/ DeleteDone
    \/ DeleteError

SpecWallpaper == InitWallpaper /\ [][NextWallpaper]_vars

\* Type correctness of the drag machine's state.
TypeOK ==
    /\ now \in 0..MaxNow
    /\ drag.src \in {"none", "grid", "folder", "external"}
    /\ dragTarget # Null =>
         dragTarget.action \in {"merge", "reorder-before", "reorder-after"}

\* ------------------------------------------------------------ the claims
\* The statements below are written from the specification's words, with their
\* own arithmetic, and not through the operators that model the handlers.

Range(f) == {f[i] : i \in 1..Len(f)}

NoDuplicates(f) == \A i, j \in 1..Len(f) : f[i] = f[j] => i = j

\* 0.25W < x < 0.75W and 0.25H < y < 0.75H
InMergeZone(g) ==
    /\ 25 * g.W < 100 * g.x
    /\ 100 * g.x < 75 * g.W
    /\ 25 * g.H < 100 * g.y
    /\ 100 * g.y < 75 * g.H

\* reorder-after when x > W/2, reorder-before when x <= W/2
SideIntent(g) == IF g.x + g.x <= g.W THEN "reorder-before" ELSE "reorder-after"

BothFolders(e) == e.dragged.type = "folder" /\ e.target.type = "folder"

\* The handler classified: it did not return early.
ClassifiedBy(e, evs) == e.ev \in evs /\ e.op # "return"

\* C1: one-level nesting: no folder's children contains a folder, at any depth
\* of the tree, after any sequence of grid drops and folder drag-outs.
C1_OneLevelNesting ==
    \A e \in Range(flatten(items)) :
        e.type = "folder" => \A c \in Range(e.children) : c.type # "folder"

\* C2: id conservation: every grid drop and every folder drag-out leaves the
\* ids of the whole tree the same set, each id once, except that a merge onto
\* a link adds exactly one id that was not in the tree.
C2_IdStep ==
    last'.ev \in {"drop", "backdrop-drop"} =>
        LET before == IdSet(items)
            after  == IdSet(items')
        IN  /\ NoDuplicates(TreeIds(items'))
            /\ IF last'.op = "merge-new"
               THEN \E id \in after : id \notin before /\ after = before \cup {id}
               ELSE after = before

\* C2: id conservation holds of every step (every drop and drag-out).
C2_IdConservation == [][C2_IdStep]_vars

\* C3: fresh folder id: the id given to a folder synthesized by a merge,
\* 'folder-' followed by the clock value, is not an id already in the tree.
C3_FreshStep ==
    (last'.ev = "drop" /\ last'.op = "merge-new") =>
        /\ Id("folder-", now) \notin IdSet(items)
        /\ Id("folder-", now) \in IdSet(items')

\* C3: every merge that synthesizes a folder gives it an id not yet in the tree.
C3_FreshFolderId == [][C3_FreshStep]_vars

\* C4: cancellation leaves the tree unchanged: dragstart, drag-over, drag-leave
\* and the end of a gesture without a drop never assign the bookmark list; the
\* list changes only in a drop (on a grid entry, or on the folder view).
C4_GestureStep ==
    /\ last'.ev \in {"dragstart", "external-dragstart", "folder-dragstart",
                     "dragover", "dragleave", "dragend"} => items' = items
    /\ items' # items => last'.ev \in {"drop", "backdrop-drop"}

\* C4: no step of a gesture other than a drop assigns the bookmark list.
C4_CancelKeepsTree == [][C4_GestureStep]_vars

\* C4 witness: a gesture that started on a grid entry has ended without a drop.
C4_Cancelled ==
    /\ last.ev = "dragend"
    /\ last.dragged # Null
    /\ drag.src = "none"
    /\ items = SAVED_LINK_FOLDER

\* C5: every gesture ends in Idle: after a drop on a grid entry and after a
\* dragend without a drop, no dragged entry is recorded.
C5_GestureEndsIdle ==
    last.ev \in {"drop", "dragend"} => draggedItem = Null

\* C6: geometry classification: for a dragged entry different from the target
\* and a box with W > 0 and H > 0, drag-over and drop classify as merge exactly
\* in the merge zone when the two are not both folders, and by side otherwise;
\* with the six sample points of the 100 by 100 box.
C6_Expected(e) ==
    IF InMergeZone(e.g) /\ ~BothFolders(e) THEN "merge" ELSE SideIntent(e.g)

C6_Samples(e) ==
    /\ (e.g = Pt(50, 50, 100, 100) /\ ~BothFolders(e)) => intentOf(e.op) = "merge"
    /\ (e.g = Pt(26, 26, 100, 100) /\ ~BothFolders(e)) => intentOf(e.op) = "merge"
    /\ e.g = Pt(10, 50, 100, 100) => intentOf(e.op) = "reorder-before"
    /\ e.g = Pt(24, 50, 100, 100) => intentOf(e.op) = "reorder-before"
    /\ e.g = Pt(90, 50, 100, 100) => intentOf(e.op) = "reorder-after"
    /\ e.g = Pt(25, 50, 100, 100) => intentOf(e.op) # "merge"

\* C6: drag-over and drop classify as the specification's geometry rule says.
C6_Classification ==
    (ClassifiedBy(last, {"dragover", "drop"}) /\ last.g.W > 0 /\ last.g.H > 0) =>
        /\ intentOf(last.op) = C6_Expected(last)
        /\ C6_Samples(last)
        /\ last.ev = "dragover" =>
             dragTarget = [id |-> last.target.id, action |-> C6_Expected(last)]

\* C6 witness: drag-over at (26, 26) of a 100 by 100 box recorded merge.
C6_JustInside ==
    /\ last.ev = "dragover"
    /\ last.g = Pt(26, 26, 100, 100)
    /\ dragTarget # Null
    /\ dragTarget.action = "merge"

\* C7 as claimed: a drop of folder F1 inside the merge zone of folder F2 leaves
\* the top-level list with the same entries in the same order.
C7_RejectedStep ==
    (last'.ev = "drop" /\ last'.dragged # Null /\ BothFolders(last')
        /\ InMergeZone(last'.g)) => items' = items

\* C7 as claimed: every folder-on-folder drop in the merge zone leaves the list as it was.
C7_MergeRejectionUnchanged == [][C7_RejectedStep]_vars

\* C7 as amended: a drop of folder F1 inside the merge zone of folder F2 merges
\* nothing: the list keeps the same entries, each with its children as before,
\* and the entries other than F1 keep their order; only F1's place may change.
C7_NoMergeStep ==
    (last'.ev = "drop" /\ last'.dragged # Null /\ BothFolders(last')
        /\ last'.dragged.id # last'.target.id /\ InMergeZone(last'.g)) =>
        LET from == findIndex(items, last'.dragged.id)
            to   == findIndex(items', last'.dragged.id)
        IN  /\ from # NotFound
            /\ to # NotFound
            /\ items'[to] = items[from]
            /\ spliceOut(items', to) = spliceOut(items, from)

\* C7 as amended: every folder-on-folder drop in the merge zone merges nothing
\* and at most moves the dragged folder.
C7_MergeRejection == [][C7_NoMergeStep]_vars

\* C7 witness: a folder was dropped in the merge zone of another folder and
\* the list is no longer the initial one.
C7_FolderOnFolderCentre ==
    /\ last.ev = "drop"
    /\ last.dragged # Null
    /\ BothFolders(last)
    /\ InMergeZone(last.g)
    /\ items # SAVED_BOOKMARKS

\* C8: folder over folder never merges but may reorder: for two folders the
\* intent is never merge, at any pointer position; drag-over and drop go by
\* side only, and the drop changes no entry and creates none.
C8_FolderStep ==
    (ClassifiedBy(last', {"dragover", "drop"}) /\ BothFolders(last')) =>
        /\ intentOf(last'.op) = SideIntent(last'.g)
        /\ last'.ev = "dragover" =>
             dragTarget' = [id |-> last'.target.id, action |-> SideIntent(last'.g)]
        /\ last'.ev = "drop" =>
             /\ Len(items') = Len(items)
             /\ Range(items') = Range(items)
             /\ Range(flatten(items')) = Range(flatten(items))

\* C8: every classification of a folder over a folder is a reorder by side.
C8_FolderOverFolder == [][C8_FolderStep]_vars

\* C8 witness: drag-over of a folder in the central zone of another folder,
\* right of the middle, recorded reorder-after.
C8_CentreReorders ==
    /\ last.ev = "dragover"
    /\ last.dragged # Null
    /\ BothFolders(last)
    /\ InMergeZone(last.g)
    /\ dragTarget = [id |-> last.target.id, action |-> "reorder-after"]

\* C9: degenerate geometry: with a target box of zero width or zero height,
\* drag-over and drop classify as reorder-before at every pointer position.
C9_DegenerateGeometry ==
    (ClassifiedBy(last, {"dragover", "drop"}) /\ (last.g.W = 0 \/ last.g.H = 0)) =>
        intentOf(last.op) = "reorder-before"

\* C10: preview and drop agree: for the same dragged entry, target and pointer
\* sample, every intent recorded by drag-over and every operation applied by
\* drop are the same, whatever events came in between.
C10_PreviewDropAgree ==
    \A a, b \in seen :
        (a.dragged = b.dragged /\ a.target = b.target) => a.intent = b.intent

\* C10 witness: the same target was previewed as merge and then dropped on.
C10_PreviewedThenDropped ==
    \E a, b \in seen :
        /\ a.kind = "over"
        /\ b.kind = "drop"
        /\ a.target = b.target
        /\ a.intent = "merge"

\* C11: dragging onto itself is a no-op: when the dragged entry's id is the
\* target's id, drag-over leaves the preview state as it was and assigns
\* nothing else, and drop leaves the list as it was.
C11_SelfStep ==
    (last'.ev \in {"dragover", "drop"} /\ last'.dragged # Null
        /\ last'.dragged.id = last'.target.id) =>
        /\ items' = items
        /\ last'.ev = "dragover" => dragTarget' = dragTarget
        /\ seen' = seen

\* C11: every drag-over and every drop of an entry on itself is a no-op.
C11_SelfNoOp == [][C11_SelfStep]_vars

\* C11 witness: the dragged entry hovers over itself while the preview still
\* shows the intent recorded on another entry.
C11_SelfHoverKeepsPreview ==
    /\ last.ev = "dragover"
    /\ last.dragged # Null
    /\ last.dragged.id = last.target.id
    /\ dragTarget # Null
    /\ dragTarget.id # last.target.id
    /\ items = SAVED_BOOKMARKS

\* The list without the entries of the given id, the others in their order.
Without(s, id) == SelectSeq(s, LAMBDA e : e.id # id)

Has(s, id) == \E i \in 1..Len(s) : s[i].id = id

PlaceOf(s, id) == CHOOSE i \in 1..Len(s) : s[i].id = id

\* A drop of a dragged entry d on a different entry t, both in the top-level list.
DropOfOn(e, its) ==
    /\ e.ev = "drop"
    /\ e.dragged # Null
    /\ e.dragged.id # e.target.id
    /\ Has(its, e.dragged.id)
    /\ Has(its, e.target.id)

\* C12: reorder correctness: a reorder drop of d on t gives a list of the same
\* length in which d is immediately before t (reorder-before) or immediately
\* after t (reorder-after) and the entries other than d keep their order; from
\* [A,B,C], A after C gives [B,C,A] and C before A gives [C,A,B].
C12_ReorderStep ==
    (DropOfOn(last', items) /\ C6_Expected(last') # "merge") =>
        LET d == last'.dragged.id
            t == last'.target.id
            side == C6_Expected(last')
        IN  /\ Len(items') = Len(items)
            /\ Has(items', d)
            /\ Has(items', t)
            /\ side = "reorder-before" => PlaceOf(items', d) + 1 = PlaceOf(items', t)
            /\ side = "reorder-after" => PlaceOf(items', d) = PlaceOf(items', t) + 1
            /\ Without(items', d) = Without(items, d)
            /\ items'[PlaceOf(items', d)] = items[PlaceOf(items, d)]
            /\ (items = <<GitHub, YouTube, ChatGPT>> /\ d = GitHub.id /\ t = ChatGPT.id
                    /\ side = "reorder-after") => items' = <<YouTube, ChatGPT, GitHub>>
            /\ (items = <<GitHub, YouTube, ChatGPT>> /\ d = ChatGPT.id /\ t = GitHub.id
                    /\ side = "reorder-before") => items' = <<ChatGPT, GitHub, YouTube>>

\* C12: every reorder drop puts the dragged entry next to the target, on the
\* side classified, and changes nothing else.
C12_ReorderCorrect == [][C12_ReorderStep]_vars

\* C12 witness: GitHub was dropped on the right edge of ChatGPT, the last entry,
\* and is now the last entry.
C12_MovedAfterLast ==
    /\ last.ev = "drop"
    /\ last.dragged = GitHub
    /\ last.target = ChatGPT
    /\ last.g = Pt(90, 50, 100, 100)
    /\ items = <<YouTube, ChatGPT, GitHub>>

\* C13: merge creates folder: a merge drop of d onto a link t replaces t, at
\* t's place, by one new folder titled 'New Folder' with the default folder
\* icon and the children [t, d]; d leaves the top level, the list is one entry
\* shorter and the other entries keep their order; from [A, B], A onto B
\* gives [Folder{children: [B, A]}].
C13_MergeStep ==
    (DropOfOn(last', items) /\ last'.target.type = "link" /\ InMergeZone(last'.g)) =>
        LET d == last'.dragged.id
            t == last'.target.id
            rest == Without(items, d)
            pos == PlaceOf(rest, t)
        IN  /\ Len(items') = Len(items) - 1
            /\ \A i \in 1..Len(rest) : i # pos => items'[i] = rest[i]
            /\ items'[pos].type = "folder"
            /\ items'[pos].title = "New Folder"
            /\ items'[pos].icon = "U+1F4C1"
            /\ items'[pos].children = <<items[PlaceOf(items, t)], items[PlaceOf(items, d)]>>
            /\ ~Has(items', d)
            /\ ~Has(items', t)
            /\ (items = <<GitHub, YouTube>> /\ d = GitHub.id /\ t = YouTube.id) =>
                   /\ Len(items') = 1
                   /\ items'[1].children = <<YouTube, GitHub>>

\* C13: every merge drop onto a link puts a new folder [t, d] in t's place.
C13_MergeCreatesFolder == [][C13_MergeStep]_vars

\* C13 witness: GitHub was dropped in the merge zone of YouTube and the list
\* is the one folder holding YouTube and GitHub.
C13_TwoLinksMerged ==
    /\ last.ev = "drop"
    /\ last.dragged = GitHub
    /\ last.target = YouTube
    /\ InMergeZone(last.g)
    /\ Len(items) = 1
    /\ items[1].type = "folder"
    /\ items[1].children = <<YouTube, GitHub>>

\* C14: folder absorption: a merge drop of link a onto folder F appends a as
\* the last child of F, F keeping its id, title, icon, its other children in
\* their order and its place among the other entries; a leaves the top level
\* and no other top-level entry changes.
C14_AbsorbStep ==
    (DropOfOn(last', items) /\ last'.dragged.type = "link"
        /\ last'.target.type = "folder" /\ InMergeZone(last'.g)) =>
        LET d == last'.dragged.id
            a == items[PlaceOf(items, d)]
            F == items[PlaceOf(items, last'.target.id)]
            rest == Without(items, d)
            pos == PlaceOf(rest, F.id)
        IN  /\ Len(items') = Len(items) - 1
            /\ \A i \in 1..Len(rest) : i # pos => items'[i] = rest[i]
            /\ items'[pos] = [id |-> F.id, type |-> "folder", title |-> F.title,
                              icon |-> F.icon, children |-> Append(F.children, a)]
            /\ ~Has(items', d)
            /\ F.children = <<Twitter>> => items'[pos].children = <<Twitter, a>>

\* C14: every merge drop of a link onto a folder appends the link to the folder.
C14_FolderAbsorbs == [][C14_AbsorbStep]_vars

\* C14 witness: GitHub was dropped in the merge zone of the folder Social,
\* whose children are now Twitter and GitHub.
C14_SocialAbsorbedGitHub ==
    /\ last.ev = "drop"
    /\ last.dragged = GitHub
    /\ last.target = Social
    /\ InMergeZone(last.g)
    /\ \E i \in 1..Len(items) :
           items[i] = Folder(Id("", 3), "Social", <<Twitter, GitHub>>)

\* C15: NotFound degrades to a no-op: a drop whose dragged id or whose target
\* id is not in the top-level list leaves the list as it was.
C15_NotFoundStep ==
    (last'.ev = "drop" /\ last'.dragged # Null
        /\ (~Has(items, last'.dragged.id) \/ ~Has(items, last'.target.id))) =>
        items' = items

FolderIds(s) == {e.id : e \in {x \in Range(flatten(s)) : x.type = "folder"}}

\* A child left the open folder: by a drag-out or by the context menu's Remove.
ChildRemoved(e) ==
    \/ e.ev = "remove"
    \/ e.ev = "backdrop-drop" /\ e.op = "drag-out"

\* C16: removal preserves the folder: after a drag-out or a Remove the folder
\* is in the top-level list at the place it had, with its id, and with no
\* children when its only child was removed; and no drop, drag-out or removal
\* takes a folder out of the tree.
C16_RemovalStep ==
    /\ ChildRemoved(last') =>
          /\ Has(items, openFolder.id)
          /\ Len(items') >= PlaceOf(items, openFolder.id)
          /\ items'[PlaceOf(items, openFolder.id)].id = openFolder.id
          /\ items'[PlaceOf(items, openFolder.id)].type = "folder"
          /\ Len(openFolder.children) = 1 =>
                items'[PlaceOf(items, openFolder.id)].children = <<>>
    /\ last'.ev \in {"drop", "backdrop-drop", "remove"} =>
          FolderIds(items) \subseteq FolderIds(items')

\* C16: every removal keeps the folder in its place, and no drop, drag-out or
\* removal deletes a folder.
C16_RemovalPreservesFolder == [][C16_RemovalStep]_vars

\* How many entries of the tree have the given id.
Occurrences(s, id) == Cardinality({i \in 1..Len(TreeIds(s)) : TreeIds(s)[i] = id})

\* The payload names a child of the folder: a folder-item of this folder whose
\* id is among the folder's children.
NamesChildOf(data, folder) ==
    /\ data.type = "folder-item"
    /\ data.fromFolderId = folder.id
    /\ Has(folder.children, data.id)

\* C17: drag-out: a drop on the folder view of a child of the open folder
\* takes the child out of the folder's children and appends it as the last
\* top-level entry, so that it occurs once in the tree; a drop with any other
\* payload changes nothing.
C17_DragOutStep ==
    last'.ev = "backdrop-drop" =>
        IF NamesChildOf(drag, openFolder)
        THEN LET c == openFolder.children[PlaceOf(openFolder.children, drag.id)]
                 k == PlaceOf(items, openFolder.id)
             IN  /\ Has(items, openFolder.id)
                 /\ Len(items') = Len(items) + 1
                 /\ items'[Len(items')] = c
                 /\ items'[k].id = openFolder.id
                 /\ items'[k].children = Without(items[k].children, c.id)
                 /\ \A i \in 1..Len(items) : i # k => items'[i] = items[i]
                 /\ Occurrences(items', c.id) = 1
        ELSE /\ items' = items
             /\ openFolder' = openFolder

\* C17: every drop on the folder view moves the named child to the end of the
\* top level, or changes nothing.
C17_DragOut == [][C17_DragOutStep]_vars

\* C17 witness: Twitter was dragged out of the folder Social and is the last
\* top-level entry, Reddit staying in the folder.
C17_TwitterDraggedOut ==
    /\ last.ev = "backdrop-drop"
    /\ last.op = "drag-out"
    /\ last.target = Twitter
    /\ items[Len(items)] = Twitter
    /\ openFolder = Folder(Id("", 3), "Social", <<Reddit>>)

\* C20: the context menu's Remove inside a folder: the folder becomes the same
\* folder (id, title, icon) without the removed child, the other children in
\* their order, and both the folder's top-level entry and the open-folder
\* view are that folder.
C20_RemoveStep ==
    last'.ev = "remove" =>
        LET updated == [id |-> openFolder.id, type |-> "folder",
                        title |-> openFolder.title, icon |-> openFolder.icon,
                        children |-> Without(openFolder.children, last'.target.id)]
        IN  /\ Has(items, openFolder.id)
            /\ Len(items') = Len(items)
            /\ items'[PlaceOf(items, openFolder.id)] = updated
            /\ openFolder' = updated
            /\ Len(updated.children) = Len(openFolder.children) - 1

\* C20: every Remove sets the list entry and the open folder to the folder
\* without the removed child.
C20_ContextRemove == [][C20_RemoveStep]_vars

\* C20 witness: Reddit, the middle child of Social's three, was removed and
\* Twitter and GitHub are left in their order.
C20_MiddleChildRemoved ==
    /\ last.ev = "remove"
    /\ last.target = Reddit
    /\ openFolder = Folder(Id("", 3), "Social", <<Twitter, GitHub>>)
    /\ \E i \in 1..Len(items) : items[i] = openFolder

\* The strings a stored JSON text of an array holds, in order.
StoredStrings(text) ==
    LET quotedOnly == SelectSeq(text, LAMBDA t : t.tok = "string")
    IN  [i \in 1..Len(quotedOnly) |-> quotedOnly[i].quoted]

\* C18: search history: after a search for a non-blank query q with
\* maxHistoryItems >= 1, q is first in the history and occurs once, the other
\* entries of the history before follow in their order, the history has at
\* most maxHistoryItems entries and localStorage 'searchHistory' holds it.
C18_SearchStep ==
    (last'.ev = "search" /\ last'.target \notin {"", " "} /\ maxHistoryItems >= 1) =>
        LET q == last'.target
            others == SelectSeq(history, LAMBDA h : h # q)
        IN  /\ Len(history') >= 1
            /\ history'[1] = q
            /\ \A i \in 2..Len(history') : history'[i] # q
            /\ Len(history') <= maxHistoryItems
            /\ Len(history') - 1 <= Len(others)
            /\ Tail(history') = SubSeq(others, 1, Len(history') - 1)
            /\ Len(history') < maxHistoryItems => Len(history') = Len(others) + 1
            /\ searchHistory' # Null
            /\ StoredStrings(searchHistory') = history'

\* C18: every search for a non-blank query puts it first, once, in a history
\* of at most maxHistoryItems entries that is also the stored one.
C18_SearchHistory == [][C18_SearchStep]_vars

\* C18 witness: 'a' was searched again with room for three entries: it moved
\* to the front of the history b, c, a, d, whose last entry was cut.
C18_SearchedAgain ==
    /\ last.ev = "search"
    /\ last.target = "a"
    /\ maxHistoryItems = 3
    /\ history = <<"a", "b", "c">>
    /\ searchHistory = JSONstringify(<<"a", "b", "c">>)

\* C19: editing keeps identity: saving an edit of a top-level entry gives an
\* entry with the same id at the same place; the length of the list and every
\* other entry are as before.
C19_EditStep ==
    (last'.ev = "save" /\ editItem # Null /\ editItem.item # Null) =>
        LET edited == editItem.item.id
            place == PlaceOf(items, edited)
        IN  /\ Has(items, edited)
            /\ last'.target.id = edited
            /\ Len(items') = Len(items)
            /\ items'[place] = last'.target
            /\ \A i \in 1..Len(items) : i # place => items'[i] = items[i]

\* C19: every saved edit replaces the entry in place, under its id.
C19_EditKeepsIdentity == [][C19_EditStep]_vars

\* C19 witness: YouTube, the second of four entries, was renamed and saved.
C19_YouTubeRenamed ==
    /\ last.ev = "save"
    /\ last.op = "edit"
    /\ Len(items) = 4
    /\ items[1] = GitHub
    /\ items[2].id = YouTube.id
    /\ items[2].title = "Renamed"
    /\ editItem = Null

\* C21: preview reset: every drag-leave and every drop leaves no preview
\* intent recorded, and a preview intent is recorded only by a drag-over and
\* kept only until the next drag-leave, drop or end of the gesture.
C21_ResetStep ==
    /\ last'.ev \in {"dragleave", "drop"} => dragTarget' = Null
    /\ dragTarget' # Null =>
          \/ last'.ev = "dragover"
          \/ dragTarget' = dragTarget /\ last'.ev \notin {"dragleave", "drop", "dragend"}

\* C21: the preview intent is none after every drag-leave and every drop.
C21_PreviewReset == [][C21_ResetStep]_vars

\* C21 witness: a drop that returned early (the entry was dropped on itself)
\* has ended the gesture and no preview intent is recorded.
C21_ResetByEarlyDrop ==
    /\ last.ev = "drop"
    /\ last.op = "return"
    /\ last.dragged # Null
    /\ dragTarget = Null

\* C22: no stale gesture: a drop event on a grid entry changes the list only
\* while a gesture started by a dragstart on a grid entry is in progress.
C22_DropStep ==
    (last'.ev = "drop" /\ drag.src # "grid") => items' = items

\* C22: every drop that is not part of a gesture started on a grid entry
\* leaves the list as it was.
C22_NoStaleGesture == [][C22_DropStep]_vars

\* C23: preview consistency: when a preview intent is recorded, a dragged
\* entry is recorded and the preview's target id is not the dragged entry's id.
C23_PreviewConsistent ==
    dragTarget # Null =>
        /\ draggedItem # Null
        /\ dragTarget.id # draggedItem.id

\* C23 witness: a preview intent is recorded during a drag that started
\* outside the grid, over an entry other than the one still recorded as dragged.
C23_PreviewInForeignDrag ==
    /\ dragTarget # Null
    /\ drag.src = "external"
    /\ draggedItem # Null
    /\ last.ev = "dragover"

\* C24: a reorder drop of d on t is idempotent: repeating the drop just made
\* (same dragged entry, same target, same side) leaves the list as the first
\* drop left it; reorder-before on the entry immediately following d, and
\* reorder-after on the entry immediately preceding d, return the input list.
C24_ReorderAgainStep ==
    (DropOfOn(last', items) /\ C6_Expected(last') # "merge") =>
        LET d == last'.dragged.id
            t == last'.target.id
            side == C6_Expected(last')
        IN  /\ (\E p \in seen : p.dragged = d /\ p.target = t /\ SideIntent(p.g) = side)
                    => items' = items
            /\ (side = "reorder-before" /\ PlaceOf(items, t) = PlaceOf(items, d) + 1)
                    => items' = items
            /\ (side = "reorder-after" /\ PlaceOf(items, t) + 1 = PlaceOf(items, d))
                    => items' = items

\* C24: every repeated reorder drop, and every reorder drop onto the side of
\* the neighbour that already faces the dragged entry, changes nothing.
C24_ReorderIdempotent == [][C24_ReorderAgainStep]_vars

\* C24 witness: GitHub was dropped on the right edge of ChatGPT twice in a row,
\* and the second drop was applied (it did not return early).
C24_DroppedTwice ==
    /\ last.ev = "drop"
    /\ last.op = "reorder-after"
    /\ last.dragged = GitHub
    /\ last.target = ChatGPT
    /\ draggedItem = Null
    /\ seen = {[dragged |-> GitHub.id, target |-> ChatGPT.id,
                 g |-> Pt(90, 50, 100, 100), again |-> TRUE]}
    /\ Len(items) = 3
    /\ items[3] = GitHub

\* C25: open-folder snapshot consistency: whenever a folder view is open, the
\* open-folder value is the entry of the top-level list that has its id.
C25_OpenFolderCurrent ==
    openFolder # Null =>
        \E i \in 1..Len(items) : items[i].id = openFolder.id /\ items[i] = openFolder

\* C26: editing conserves the tree: a saved edit keeps the entry's type and,
\* for a folder, its children; the ids in the tree are the same before and
\* after the save.
C26_EditStep ==
    (last'.ev = "save" /\ last'.op = "edit" /\ Has(items, last'.target.id)) =>
        LET place == PlaceOf(items, last'.target.id) IN
        /\ items'[place].type = items[place].type
        /\ items[place].type = "folder" => items'[place].children = items[place].children
        /\ IdSet(items') = IdSet(items)

\* C26: every saved edit keeps the type, the children and the ids of the tree.
C26_EditConservesTree == [][C26_EditStep]_vars

\* C27: the keyboard selection is -1 or an index of the rows listed: the
\* displayed history when the query is empty, the suggestions otherwise.
C27_SelectionValid ==
    \/ selectedIndex = -1
    \/ /\ 0 <= selectedIndex
       /\ query = "" => selectedIndex < Len(history) /\ selectedIndex < maxHistoryItems
       /\ query # "" => selectedIndex < Len(suggestions)

\* C28: no stale suggestions: a response replaces the suggestions only when
\* it answers a request made for the current query and engine, and the
\* suggestions never hold more than maxSuggestions entries.
C28_SuggestStep ==
    /\ (last'.ev = "suggestions" /\ last' # last
          /\ ~(last'.target.query = query /\ last'.target.engine = currentEngineId))
            => suggestions' = suggestions
    /\ Len(suggestions') <= maxSuggestions'

\* C28: the suggestions shown were fetched for the current query and engine
\* and are at most maxSuggestions.
C28_NoStaleSuggestions == [][C28_SuggestStep]_vars

\* C29: no dangling wallpaper id: whenever settings.backgroundImageId is
\* defined, the wallpaper store holds a record with that id.
C29_NoDanglingWallpaper ==
    backgroundImageId # undefined => backgroundImageId \in wallpaperStore

\* C30: import keeps the data-model invariants: a list that is installed has
\* unique ids across the tree and folders that contain only links; a rejected
\* import leaves the list as it was.
C30_ImportStep ==
    /\ (last'.ev = "import" /\ last'.op = "restore") =>
          /\ NoDuplicates(TreeIds(items'))
          /\ \A i \in 1..Len(items') :
                \A j \in 1..Len(items'[i].children) :
                    items'[i].children[j].type = "link"
    /\ (last'.ev = "import" /\ last'.op = "reject") => items' = items

\* C30: every import installs a well-formed tree or changes nothing.
C30_ImportKeepsInvariants == [][C30_ImportStep]_vars

====
